---- MODULE Spec2Model ----
(***************************************************************************)
(* Model of apps/ogrinfo_bin.cpp: main() from the datasource-name check    *)
(* (line 115) to exit() (line 223).  The program is sequential; pc is the  *)
(* position of main().  The data source and the report renderer are the    *)
(* environment: their behaviour is fixed at start-up and is arbitrary.     *)
(***************************************************************************)
EXTENDS Integers, Sequences, FiniteSets, TLC

(* Bound on the iterations of the __AFL_LOOP(1000) persistent loop. *)
MaxIter == 2

NULL == 0

GDAL_OF_VECTOR == "Vector"
GDAL_OF_READONLY == "ReadOnly"
GDAL_OF_UPDATE == "Update"
GDAL_OF_VERBOSE_ERROR == "VerboseError"

AdvisoryLine == "Had to open data source read-only."
DiagnosticLine == "ogrinfo failed - unable to open"
UsageLine == "Usage: ogrinfo"
NoDatasourceLine == "FAILURE: No datasource specified."
ReportText == "GDALVectorInfo output"

Filenames == {"", "a.gpkg"}
SQLStatements == {"", "SELECT"}
OpenOptionLists == {<< >>, <<"A=1", "B=2">>}

VARIABLES
    bAFL,                 \* built with __AFL_HAVE_MANUAL_CONTROL
    osFilename,           \* psOptionsForBinary->osFilename
    bUpdate,              \* psOptionsForBinary->bUpdate
    bReadOnly,            \* psOptionsForBinary->bReadOnly
    bVerbose,             \* psOptionsForBinary->bVerbose
    osSQLStatement,       \* psOptionsForBinary->osSQLStatement
    aosOpenOptions,       \* psOptionsForBinary->aosOpenOptions
    src,                  \* the data source and the renderer (environment)
    pc,                   \* position of main()
    iIter,                \* iterations of the loop body started
    nFlags,               \* local of the loop body
    bMayRetryUpdateMode,  \* local of the loop body
    poDS,                 \* local of the loop body: NULL or a handle
    nRet,                 \* local of the loop body
    exitCode,             \* argument of exit(), -1 while running
    calls,                \* calls made to the library, in order
    out,                  \* lines written by the tool, in order
    live,                 \* dataset handles open now
    released,             \* handles deleted, in order
    entry                 \* what held when the current loop body was entered, and
                          \* where the pass before it began in calls and out

options == <<bAFL, osFilename, bUpdate, bVerbose, osSQLStatement, aosOpenOptions, src>>
locals == <<nFlags, bMayRetryUpdateMode, poDS, nRet>>
vars == <<options, bReadOnly, pc, iIter, locals, exitCode, calls, out, live, released, entry>>

----------------------------------------------------------------------------
(* The library calls main() makes. *)

\* GDALIdentifyDriverEx(osFilename, GDAL_OF_VECTOR, nullptr, nullptr) != nullptr
GDALIdentifyDriverEx(path) == src.identified

\* Whether GDALDataset::Open(path, flags, nullptr, oo, nullptr) returns a dataset
OpenSucceeds(path, flags) == IF GDAL_OF_UPDATE \in flags THEN src.update ELSE src.readonly

\* Handles are numbered in the order the opens return them.
RECURSIVE CountOk(_)
CountOk(s) == IF s = << >> THEN 0
              ELSE (IF Head(s).op = "open" /\ Head(s).ok THEN 1 ELSE 0) + CountOk(Tail(s))

NewHandle == CountOk(calls) + 1

OpenCall(path, flags, oo) ==
    LET ok == OpenSucceeds(path, flags)
    IN [op |-> "open", path |-> path, flags |-> flags, oo |-> oo, ok |-> ok,
        h |-> IF ok THEN NewHandle ELSE NULL]

IdentifyCall(path) ==
    [op |-> "identify", path |-> path, flags |-> {GDAL_OF_VECTOR}, oo |-> << >>,
     ok |-> GDALIdentifyDriverEx(path), h |-> NULL]

\* GDALVectorInfo(GDALDataset::ToHandle(poDS), psOptions)
InfoCall(h) ==
    [op |-> "info", path |-> osFilename, flags |-> {}, oo |-> << >>,
     ok |-> src.render, h |-> h]

----------------------------------------------------------------------------
(* The decisions of main(). *)

\* line 138 without the osSQLStatement.empty() test
ProbeBranch_IgnoresQuery == ~bUpdate /\ ~bReadOnly

\* line 138: the branch that probes
ProbeBranch == ~bUpdate /\ ~bReadOnly /\ osSQLStatement = ""

\* lines 134-137 as two independent ifs instead of if / else if
PrimaryFlags_BothModes(identified) ==
    IF bUpdate
    THEN {GDAL_OF_VECTOR, GDAL_OF_UPDATE, GDAL_OF_VERBOSE_ERROR}
             \cup (IF bReadOnly THEN {GDAL_OF_READONLY} ELSE {})
    ELSE IF bReadOnly THEN {GDAL_OF_VECTOR, GDAL_OF_READONLY, GDAL_OF_VERBOSE_ERROR}
    ELSE IF osSQLStatement = ""
         THEN IF identified THEN {GDAL_OF_VECTOR, GDAL_OF_READONLY}
              ELSE {GDAL_OF_VECTOR, GDAL_OF_READONLY, GDAL_OF_VERBOSE_ERROR}
    ELSE {GDAL_OF_VECTOR, GDAL_OF_UPDATE, GDAL_OF_VERBOSE_ERROR}

\* lines 141-150 with GDAL_OF_VERBOSE_ERROR set whatever the probe answers
PrimaryFlags_AlwaysVerbose(identified) ==
    IF bUpdate THEN {GDAL_OF_VECTOR, GDAL_OF_UPDATE, GDAL_OF_VERBOSE_ERROR}
    ELSE IF bReadOnly THEN {GDAL_OF_VECTOR, GDAL_OF_READONLY, GDAL_OF_VERBOSE_ERROR}
    ELSE IF osSQLStatement = ""
         THEN {GDAL_OF_VECTOR, GDAL_OF_READONLY, GDAL_OF_VERBOSE_ERROR}
    ELSE {GDAL_OF_VECTOR, GDAL_OF_UPDATE, GDAL_OF_VERBOSE_ERROR}

\* lines 134-153 with the statement test ahead of the bReadOnly test
PrimaryFlags_QueryFirst(identified) ==
    IF bUpdate THEN {GDAL_OF_VECTOR, GDAL_OF_UPDATE, GDAL_OF_VERBOSE_ERROR}
    ELSE IF osSQLStatement # "" THEN {GDAL_OF_VECTOR, GDAL_OF_UPDATE, GDAL_OF_VERBOSE_ERROR}
    ELSE IF bReadOnly THEN {GDAL_OF_VECTOR, GDAL_OF_READONLY, GDAL_OF_VERBOSE_ERROR}
    ELSE IF identified THEN {GDAL_OF_VECTOR, GDAL_OF_READONLY}
    ELSE {GDAL_OF_VECTOR, GDAL_OF_READONLY, GDAL_OF_VERBOSE_ERROR}

\* lines 134-137 with the bReadOnly test ahead of the bUpdate test
PrimaryFlags_ReadOnlyFirst(identified) ==
    IF bReadOnly THEN {GDAL_OF_VECTOR, GDAL_OF_READONLY, GDAL_OF_VERBOSE_ERROR}
    ELSE IF bUpdate THEN {GDAL_OF_VECTOR, GDAL_OF_UPDATE, GDAL_OF_VERBOSE_ERROR}
    ELSE IF osSQLStatement = ""
         THEN IF identified THEN {GDAL_OF_VECTOR, GDAL_OF_READONLY}
              ELSE {GDAL_OF_VECTOR, GDAL_OF_READONLY, GDAL_OF_VERBOSE_ERROR}
    ELSE {GDAL_OF_VECTOR, GDAL_OF_UPDATE, GDAL_OF_VERBOSE_ERROR}

\* lines 132-153: nFlags, given the probe's answer (FALSE when not probed)
PrimaryFlags(identified) ==
    IF bUpdate THEN {GDAL_OF_VECTOR, GDAL_OF_UPDATE, GDAL_OF_VERBOSE_ERROR}
    ELSE IF bReadOnly THEN {GDAL_OF_VECTOR, GDAL_OF_READONLY, GDAL_OF_VERBOSE_ERROR}
    ELSE IF osSQLStatement = ""
         THEN IF identified THEN {GDAL_OF_VECTOR, GDAL_OF_READONLY}
              ELSE {GDAL_OF_VECTOR, GDAL_OF_READONLY, GDAL_OF_VERBOSE_ERROR}
    ELSE {GDAL_OF_VECTOR, GDAL_OF_UPDATE, GDAL_OF_VERBOSE_ERROR}

\* lines 158-159 without the !bReadOnly test
FallbackApplies_IgnoresReadOnly == poDS = NULL /\ ~bUpdate

\* lines 158-159 without the !bUpdate test
FallbackApplies_IgnoresUpdate == poDS = NULL /\ ~bReadOnly

\* lines 158-159 without the poDS == nullptr test
FallbackApplies_NoNullCheck == ~bReadOnly /\ ~bUpdate

\* lines 158-159
FallbackApplies == poDS = NULL /\ ~bReadOnly /\ ~bUpdate

\* lines 161-162 without the bMayRetryUpdateMode test
RetryUpdateMode_Unprobed == osSQLStatement = ""

\* lines 161-162
RetryUpdateMode == osSQLStatement = "" /\ bMayRetryUpdateMode

\* line 171 with the read-only retry never taken
RetryReadOnly_Never == FALSE

\* line 171
RetryReadOnly == osSQLStatement # ""

\* line 177 with the bVerbose test inverted
AdvisoryDue_Quiet(h) == h # NULL /\ ~bVerbose

\* line 177 without the poDS != nullptr test
AdvisoryDue_NoNullCheck(h) == bVerbose

\* line 177
AdvisoryDue(h) == h # NULL /\ bVerbose

\* line 188 with the failure branch never taken
OpenFailed_Never == FALSE

\* line 188 with the failure branch always taken
OpenFailed_Always == TRUE

\* line 188
OpenFailed == poDS = NULL

\* lines 187-202 without the else branch of line 201
ReportStatus_IgnoresRender(hasOutput) == IF OpenFailed THEN 1 ELSE 0

\* lines 187-202: nRet, given whether GDALVectorInfo returned output
ReportStatus(hasOutput) == IF OpenFailed THEN 1 ELSE IF hasOutput THEN 0 ELSE 1

----------------------------------------------------------------------------
Init ==
    /\ bAFL \in BOOLEAN
    /\ osFilename \in Filenames
    /\ bUpdate \in BOOLEAN
    /\ bReadOnly \in BOOLEAN
    /\ bVerbose \in BOOLEAN
    /\ osSQLStatement \in SQLStatements
    /\ aosOpenOptions \in OpenOptionLists
    /\ src \in [identified : BOOLEAN, readonly : BOOLEAN, update : BOOLEAN, render : BOOLEAN]
    /\ pc = "start"
    /\ iIter = 0
    /\ nFlags = {}
    /\ bMayRetryUpdateMode = FALSE
    /\ poDS = NULL
    /\ nRet = 0
    /\ exitCode = -1
    /\ calls = << >>
    /\ out = << >>
    /\ live = {}
    /\ released = << >>
    /\ entry = [n |-> 0, bReadOnly |-> bReadOnly, nCalls |-> 0, nOut |-> 0, nReleased |-> 0,
                pCalls |-> 0, pOut |-> 0]

\* lines 115-116 and Usage(), lines 43-69
UsageNoDatasource ==
    /\ pc = "start"
    /\ osFilename = ""
    /\ out' = out \o <<UsageLine, NoDatasourceLine>>
    /\ exitCode' = 1
    /\ pc' = "exited"
    /\ UNCHANGED <<options, bReadOnly, iIter, locals, calls, live, released, entry>>

\* line 115, a datasource name was given
DatasourceGiven ==
    /\ pc = "start"
    /\ osFilename # ""
    /\ pc' = "loop"
    /\ UNCHANGED <<options, bReadOnly, iIter, locals, exitCode, calls, out, live, released, entry>>

\* lines 121-126: the loop body is entered (once without the AFL loop)
EnterBody ==
    /\ pc = "loop"
    /\ iIter < (IF bAFL THEN MaxIter ELSE 1)
    /\ iIter' = iIter + 1
    /\ entry' = [n |-> iIter + 1, bReadOnly |-> bReadOnly, nCalls |-> Len(calls),
                 nOut |-> Len(out), nReleased |-> Len(released),
                 pCalls |-> entry.nCalls, pOut |-> entry.nOut]
    /\ nFlags' = {}
    /\ bMayRetryUpdateMode' = FALSE
    /\ poDS' = NULL
    /\ nRet' = 0
    /\ pc' = "flags"
    /\ UNCHANGED <<options, bReadOnly, exitCode, calls, out, live, released>>

\* line 123: __AFL_LOOP returns false, or there is no loop and the body is over
LeaveLoop ==
    /\ pc = "loop"
    /\ iIter >= 1
    /\ pc' = "teardown"
    /\ UNCHANGED <<options, bReadOnly, iIter, locals, exitCode, calls, out, live, released, entry>>

\* lines 132-153
ComputeFlags ==
    /\ pc = "flags"
    /\ LET identified == ProbeBranch /\ GDALIdentifyDriverEx(osFilename)
       IN /\ nFlags' = PrimaryFlags(identified)
          /\ bMayRetryUpdateMode' = identified
    /\ calls' = IF ProbeBranch THEN Append(calls, IdentifyCall(osFilename)) ELSE calls
    /\ pc' = "open"
    /\ UNCHANGED <<options, bReadOnly, iIter, poDS, nRet, exitCode, out, live, released, entry>>

\* lines 154-156
PrimaryOpen ==
    /\ pc = "open"
    /\ LET c == OpenCall(osFilename, nFlags, aosOpenOptions)
       IN /\ calls' = Append(calls, c)
          /\ poDS' = c.h
          /\ live' = IF c.ok THEN live \cup {c.h} ELSE live
    /\ pc' = "fallback"
    /\ UNCHANGED <<options, bReadOnly, iIter, nFlags, bMayRetryUpdateMode, nRet, exitCode,
                   out, released, entry>>

\* lines 158-185 with nullptr for the open options of both retries
Fallback_DropsOptions ==
    /\ pc = "fallback"
    /\ IF FallbackApplies /\ RetryUpdateMode
       THEN LET c == OpenCall(osFilename, {GDAL_OF_UPDATE, GDAL_OF_VECTOR}, << >>)
            IN /\ calls' = Append(calls, c)
               /\ poDS' = c.h
               /\ live' = IF c.ok THEN live \cup {c.h} ELSE live
               /\ UNCHANGED <<out, bReadOnly>>
       ELSE IF FallbackApplies /\ RetryReadOnly
       THEN LET c == OpenCall(osFilename, {GDAL_OF_READONLY, GDAL_OF_VECTOR}, << >>)
            IN /\ calls' = Append(calls, c)
               /\ poDS' = c.h
               /\ live' = IF c.ok THEN live \cup {c.h} ELSE live
               /\ out' = IF AdvisoryDue(c.h) THEN Append(out, AdvisoryLine) ELSE out
               /\ bReadOnly' = IF AdvisoryDue(c.h) /\ bAFL THEN TRUE ELSE bReadOnly
       ELSE UNCHANGED <<calls, poDS, live, out, bReadOnly>>
    /\ pc' = "report"
    /\ UNCHANGED <<options, iIter, nFlags, bMayRetryUpdateMode, nRet, exitCode, released, entry>>

\* lines 158-185
Fallback ==
    /\ pc = "fallback"
    /\ IF FallbackApplies /\ RetryUpdateMode
       THEN LET c == OpenCall(osFilename, {GDAL_OF_UPDATE, GDAL_OF_VECTOR}, aosOpenOptions)
            IN /\ calls' = Append(calls, c)
               /\ poDS' = c.h
               /\ live' = IF c.ok THEN live \cup {c.h} ELSE live
               /\ UNCHANGED <<out, bReadOnly>>
       ELSE IF FallbackApplies /\ RetryReadOnly
       THEN LET c == OpenCall(osFilename, {GDAL_OF_READONLY, GDAL_OF_VECTOR}, aosOpenOptions)
            IN /\ calls' = Append(calls, c)
               /\ poDS' = c.h
               /\ live' = IF c.ok THEN live \cup {c.h} ELSE live
               /\ out' = IF AdvisoryDue(c.h) THEN Append(out, AdvisoryLine) ELSE out
               /\ bReadOnly' = IF AdvisoryDue(c.h) /\ bAFL THEN TRUE ELSE bReadOnly
       ELSE UNCHANGED <<calls, poDS, live, out, bReadOnly>>
    /\ pc' = "report"
    /\ UNCHANGED <<options, iIter, nFlags, bMayRetryUpdateMode, nRet, exitCode, released, entry>>

\* lines 187-205
Report ==
    /\ pc = "report"
    /\ IF OpenFailed
       THEN /\ out' = Append(out, DiagnosticLine)
            /\ nRet' = ReportStatus(FALSE)
            /\ UNCHANGED calls
       ELSE LET c == InfoCall(poDS)
            IN /\ calls' = Append(calls, c)
               /\ out' = IF c.ok THEN Append(out, ReportText) ELSE out
               /\ nRet' = ReportStatus(c.ok)
    /\ pc' = "delete"
    /\ UNCHANGED <<options, bReadOnly, iIter, nFlags, bMayRetryUpdateMode, poDS, exitCode,
                   live, released, entry>>

\* line 207 left out: the dataset is never deleted
DeleteDS_Leak ==
    /\ pc = "delete"
    /\ pc' = "loop"
    /\ UNCHANGED <<options, bReadOnly, iIter, locals, exitCode, calls, out, live, released, entry>>

\* line 207: delete poDS (nothing happens for a null pointer)
DeleteDS ==
    /\ pc = "delete"
    /\ live' = live \ {poDS}
    /\ released' = IF poDS # NULL THEN Append(released, poDS) ELSE released
    /\ pc' = "loop"
    /\ UNCHANGED <<options, bReadOnly, iIter, locals, exitCode, calls, out, entry>>

\* lines 212-223: exit(nRet), nRet being the one the last pass of the body set
Teardown ==
    /\ pc = "teardown"
    /\ exitCode' = nRet
    /\ pc' = "exited"
    /\ UNCHANGED <<options, bReadOnly, iIter, locals, calls, out, live, released, entry>>

Next ==
    \/ UsageNoDatasource
    \/ DatasourceGiven
    \/ EnterBody
    \/ LeaveLoop
    \/ ComputeFlags
    \/ PrimaryOpen
    \/ Fallback
    \/ Report
    \/ DeleteDS
    \/ Teardown

Spec == Init /\ [][Next]_vars

\* main() is sequential code: a step that can be taken is taken.
FairSpec == Spec /\ WF_vars(Next)

----------------------------------------------------------------------------
(* What the current pass through the loop body has done so far.  Without   *)
(* the AFL loop a run of the tool is exactly one pass.                     *)

IsOpen(c) == c.op = "open"
IsIdentify(c) == c.op = "identify"
IsInfo(c) == c.op = "info"

CurCalls == SubSeq(calls, entry.nCalls + 1, Len(calls))
Opens == SelectSeq(CurCalls, IsOpen)
Probes == SelectSeq(CurCalls, IsIdentify)
Infos == SelectSeq(CurCalls, IsInfo)
CurOut == SubSeq(out, entry.nOut + 1, Len(out))
CurReleased == SubSeq(released, entry.nReleased + 1, Len(released))

Count(s, x) == Cardinality({i \in 1..Len(s) : s[i] = x})

InBody == entry.n > 0
PrimaryDone == InBody /\ pc \notin {"flags", "open"}
NegotiationDone == InBody /\ pc \notin {"flags", "open", "fallback"}
ReportDone == InBody /\ pc \notin {"flags", "open", "fallback", "report"}
BodyDone == InBody /\ pc \in {"loop", "teardown", "exited"}

ForceReadOnly == entry.bReadOnly /\ ~bUpdate
ForceUpdate == bUpdate
Unspecified == ~entry.bReadOnly /\ ~bUpdate
QueryAttached == osSQLStatement # ""

IsReadOnlyOpen(c) == GDAL_OF_READONLY \in c.flags /\ GDAL_OF_UPDATE \notin c.flags
IsUpdateOpen(c) == GDAL_OF_UPDATE \in c.flags /\ GDAL_OF_READONLY \notin c.flags
IsVerbose(c) == GDAL_OF_VERBOSE_ERROR \in c.flags

(* C1: with -ro (and no update flag) every open of the pass is read-only,  *)
(* exactly one open is made, and its failure is not followed by another.   *)
C1_ForceReadOnlySingleOpen ==
    (InBody /\ ForceReadOnly) =>
        /\ Len(Opens) <= 1
        /\ \A i \in 1..Len(Opens) : IsReadOnlyOpen(Opens[i])
        /\ PrimaryDone => Len(Opens) = 1

C1_Witness ==
    /\ BodyDone /\ ForceReadOnly /\ QueryAttached
    /\ Len(Opens) = 1 /\ ~Opens[1].ok /\ IsReadOnlyOpen(Opens[1])
    /\ src.update /\ src.identified

(* C2: with the update flag every open of the pass is an Update open,      *)
(* exactly one open is made, and its failure is not followed by a          *)
(* read-only (or any) retry, even on a source that opens read-only.        *)
C2_ForceUpdateSingleOpen ==
    (InBody /\ ForceUpdate) =>
        /\ Len(Opens) <= 1
        /\ \A i \in 1..Len(Opens) : IsUpdateOpen(Opens[i])
        /\ PrimaryDone => Len(Opens) = 1

C2_Witness ==
    /\ BodyDone /\ ForceUpdate /\ ~entry.bReadOnly
    /\ Len(Opens) = 1 /\ ~Opens[1].ok /\ IsUpdateOpen(Opens[1])
    /\ src.readonly /\ poDS = NULL

(* C3: no explicit flag and no SQL statement: the primary open is          *)
(* read-only; probe true and primary failed gives exactly one fallback     *)
(* open, in update mode; probe false gives a verbose primary open and no   *)
(* fallback.                                                               *)
C3_DefaultNoQuery ==
    (PrimaryDone /\ Unspecified /\ ~QueryAttached) =>
        /\ Len(Probes) = 1
        /\ Len(Opens) >= 1 /\ IsReadOnlyOpen(Opens[1])
        /\ NegotiationDone =>
             /\ (Probes[1].ok /\ ~Opens[1].ok) =>
                    Len(Opens) = 2 /\ IsUpdateOpen(Opens[2])
             /\ ~Probes[1].ok => IsVerbose(Opens[1]) /\ Len(Opens) = 1

C3_WitnessRetry ==
    /\ NegotiationDone /\ Unspecified /\ ~QueryAttached
    /\ Len(Probes) = 1 /\ Probes[1].ok
    /\ Len(Opens) = 2 /\ ~Opens[1].ok /\ IsUpdateOpen(Opens[2]) /\ Opens[2].ok

(* The read-only fallback of the pass succeeded after a failed Update      *)
(* primary open with a statement attached ("had to open read-only").       *)
Degraded ==
    /\ NegotiationDone /\ Unspecified /\ QueryAttached
    /\ Len(Opens) = 2
    /\ IsUpdateOpen(Opens[1]) /\ ~Opens[1].ok
    /\ IsReadOnlyOpen(Opens[2]) /\ Opens[2].ok

AdvisoryEmitted == Count(CurOut, AdvisoryLine) >= 1

(* C4 as stated: no explicit flag and an SQL statement: the primary open   *)
(* is a verbose Update open; its failure gives exactly one read-only       *)
(* fallback open; whenever that fallback succeeds the advisory state is    *)
(* reached.                                                                *)
C4_Original ==
    (PrimaryDone /\ Unspecified /\ QueryAttached) =>
        /\ Len(Opens) >= 1 /\ IsUpdateOpen(Opens[1]) /\ IsVerbose(Opens[1])
        /\ (NegotiationDone /\ ~Opens[1].ok) =>
             /\ Len(Opens) = 2 /\ IsReadOnlyOpen(Opens[2])
             /\ Opens[2].ok => Count(CurOut, AdvisoryLine) = 1

(* C4 amended: as C4, but the advisory state is reached on a successful    *)
(* fallback only when the tool is verbose (not run with -q).               *)
C4_QueryFallback ==
    (PrimaryDone /\ Unspecified /\ QueryAttached) =>
        /\ Len(Opens) >= 1 /\ IsUpdateOpen(Opens[1]) /\ IsVerbose(Opens[1])
        /\ (NegotiationDone /\ ~Opens[1].ok) =>
             /\ Len(Opens) = 2 /\ IsReadOnlyOpen(Opens[2])
             /\ (Opens[2].ok /\ bVerbose) => Count(CurOut, AdvisoryLine) = 1

C4_Witness ==
    /\ NegotiationDone /\ Unspecified /\ QueryAttached /\ bVerbose
    /\ Len(Opens) = 2 /\ ~Opens[1].ok /\ Opens[2].ok
    /\ Count(CurOut, AdvisoryLine) = 1

(* C5 as stated: whenever the result is degraded the advisory line is      *)
(* written, whatever the other options.                                    *)
C5_Original == Degraded => AdvisoryEmitted

(* C5 amended: whenever the result is degraded and the tool is verbose     *)
(* (not run with -q) the advisory line is written.                         *)
C5_AdvisoryWhenVerbose == (Degraded /\ bVerbose) => AdvisoryEmitted

C5_Witness == Degraded /\ bVerbose /\ AdvisoryEmitted /\ ~src.render

(* C6: one pass makes at most one probe call and at most two open calls;   *)
(* a second open is made only after the first returned failure, and        *)
(* nothing is opened after the second.                                     *)
C6_BoundedAttempts ==
    /\ Len(Probes) <= 1
    /\ Len(Opens) <= 2
    /\ Len(Opens) = 2 => ~Opens[1].ok
    /\ \A i \in 1..Len(CurCalls) :
          (IsOpen(CurCalls[i]) /\ CurCalls[i].ok) =>
              \A j \in (i + 1)..Len(CurCalls) : ~IsOpen(CurCalls[j])

C6_Witness ==
    /\ BodyDone /\ Len(Opens) = 2 /\ ~Opens[1].ok /\ ~Opens[2].ok
    /\ Len(Probes) = 1

(* C7: the advisory line is written only when neither explicit flag was    *)
(* set, a statement was attached, the primary Update open failed and the   *)
(* read-only fallback open succeeded.                                      *)
C7_AdvisoryOnlyWhenDegraded ==
    AdvisoryEmitted =>
        /\ Unspecified /\ QueryAttached
        /\ Len(Opens) = 2
        /\ IsUpdateOpen(Opens[1]) /\ ~Opens[1].ok
        /\ IsReadOnlyOpen(Opens[2]) /\ Opens[2].ok

C7_Witness == AdvisoryEmitted /\ BodyDone /\ Len(Opens) = 2 /\ Opens[2].ok

HandleObtained == Len(Opens) >= 1 /\ Opens[Len(Opens)].ok
AllOpensFailed == Len(Opens) >= 1 /\ \A i \in 1..Len(Opens) : ~Opens[i].ok
Rendered == Len(Infos) = 1 /\ Infos[1].ok

C8_ExitInv ==
    (pc = "exited" /\ osFilename # "") =>
        /\ exitCode \in {0, 1}
        /\ exitCode = 0 <=> (HandleObtained /\ Rendered)
        /\ AllOpensFailed => exitCode = 1
        /\ (HandleObtained /\ ~Rendered) => exitCode = 1

(* C8: with a datasource name given the run reaches exit(); the status is  *)
(* 0 exactly when a dataset was obtained and GDALVectorInfo returned       *)
(* output, and 1 when every open failed or no output was returned (in the  *)
(* AFL loop: in the last pass, whose nRet is the one exit() is given).     *)
C8_ExitStatus == [](C8_ExitInv) /\ ((osFilename # "") ~> (pc = "exited"))

C8_Witness ==
    /\ pc = "exited" /\ osFilename # "" /\ exitCode = 1
    /\ HandleObtained /\ Len(Infos) = 1 /\ ~Infos[1].ok /\ Len(Opens) = 2

(* C9: a pass that ends in open failure writes exactly one "unable to      *)
(* open" line and no advisory; a pass that obtained a dataset writes no    *)
(* "unable to open" line and at most one advisory; never both lines.       *)
C9_OutputLines ==
    /\ Count(CurOut, AdvisoryLine) <= 1
    /\ ~(Count(CurOut, AdvisoryLine) >= 1 /\ Count(CurOut, DiagnosticLine) >= 1)
    /\ ReportDone =>
          IF AllOpensFailed
          THEN Count(CurOut, DiagnosticLine) = 1 /\ Count(CurOut, AdvisoryLine) = 0
          ELSE Count(CurOut, DiagnosticLine) = 0
    /\ ~ReportDone => Count(CurOut, DiagnosticLine) = 0

C9_WitnessFailure ==
    /\ ReportDone /\ AllOpensFailed /\ Len(Opens) = 2 /\ QueryAttached /\ bVerbose
    /\ Count(CurOut, DiagnosticLine) = 1

Returned == {calls[i].h : i \in {j \in 1..Len(calls) : IsOpen(calls[j]) /\ calls[j].ok}}

(* C10: at most one dataset handle is live at any time and it is the one   *)
(* poDS holds; once the body is over every handle an open returned has     *)
(* been deleted exactly once (also when GDALVectorInfo returned nothing);  *)
(* when every open failed no handle is held and none is deleted.           *)
C10_HandleOwnership ==
    /\ Cardinality(live) <= 1
    /\ live \subseteq Returned
    /\ live # {} => live = {poDS}
    /\ \A i \in 1..Len(released) : released[i] \in Returned
    /\ \A h \in Returned : Count(released, h) <= 1
    /\ \A h \in Returned : h \in live <=> Count(released, h) = 0
    /\ (BodyDone \/ ~InBody) => live = {}
    /\ (PrimaryDone /\ AllOpensFailed) => poDS = NULL /\ live = {} /\ CurReleased = << >>

C10_Witness ==
    /\ pc = "exited" /\ Len(Opens) = 2 /\ Opens[2].ok
    /\ Len(Infos) = 1 /\ ~Infos[1].ok
    /\ CurReleased = <<Opens[2].h>> /\ live = {}

(* C11: the identification probe is made exactly when neither explicit     *)
(* flag is set and no SQL statement is attached; it is then made once,     *)
(* and before the first open of the pass.                                  *)
C11_ProbeIffDefault ==
    /\ Len(Probes) <= 1
    /\ (InBody /\ pc = "flags") => CurCalls = << >>
    /\ (InBody /\ pc # "flags") => (Len(Probes) = 1 <=> (Unspecified /\ ~QueryAttached))
    /\ \A i \in 1..Len(CurCalls) : \A j \in 1..Len(CurCalls) :
          (IsIdentify(CurCalls[i]) /\ IsOpen(CurCalls[j])) => i < j

C11_Witness ==
    /\ BodyDone /\ Unspecified /\ ~QueryAttached
    /\ Len(Probes) = 1 /\ Len(Opens) = 2
    /\ IsIdentify(CurCalls[1]) /\ IsOpen(CurCalls[2]) /\ IsOpen(CurCalls[3])

(* C12: every flag set given to GDALDataset::Open (primary open and both   *)
(* retries) contains Vector and exactly one of ReadOnly and Update, for    *)
(* every combination of the options, both explicit flags set included.     *)
C12_ExactlyOneMode ==
    \A i \in 1..Len(calls) :
        IsOpen(calls[i]) =>
            /\ GDAL_OF_VECTOR \in calls[i].flags
            /\ (GDAL_OF_READONLY \in calls[i].flags) # (GDAL_OF_UPDATE \in calls[i].flags)

C12_Witness ==
    /\ BodyDone /\ bUpdate /\ entry.bReadOnly
    /\ Len(Opens) = 1 /\ IsUpdateOpen(Opens[1]) /\ GDAL_OF_VECTOR \in Opens[1].flags

(* The pass before the current one (AFL loop only), and what a probe or    *)
(* open call looks like from outside: everything but the handle's number.  *)
PrevCalls == SubSeq(calls, entry.pCalls + 1, entry.nCalls)
PrevOut == SubSeq(out, entry.pOut + 1, entry.nOut)
IsNegotiationCall(c) == IsIdentify(c) \/ IsOpen(c)
Seen(c) == [op |-> c.op, path |-> c.path, flags |-> c.flags, oo |-> c.oo, ok |-> c.ok]
Trace(s) == LET t == SelectSeq(s, IsNegotiationCall) IN [i \in 1..Len(t) |-> Seen(t[i])]
PrevAdvised == Count(PrevOut, AdvisoryLine) >= 1
SecondPass == entry.n >= 2 /\ NegotiationDone

(* C13 as stated: a second negotiation in the same process, with the same  *)
(* options and source, makes the same probe and open calls with the same   *)
(* flags and results and gives the same advisory as the first.             *)
C13_Original ==
    SecondPass =>
        /\ Trace(CurCalls) = Trace(PrevCalls)
        /\ AdvisoryEmitted <=> PrevAdvised

(* C13 amended: the second negotiation repeats the first unless the first  *)
(* wrote the advisory; then (AFL loop, line 181) bReadOnly has been set    *)
(* and the second makes one verbose read-only open, which succeeds, and    *)
(* writes no advisory.                                                     *)
C13_SameUnlessAdvised ==
    SecondPass =>
        IF PrevAdvised
        THEN /\ Trace(CurCalls) =
                  <<[op |-> "open", path |-> osFilename,
                     flags |-> {GDAL_OF_VECTOR, GDAL_OF_READONLY, GDAL_OF_VERBOSE_ERROR},
                     oo |-> aosOpenOptions, ok |-> TRUE]>>
             /\ ~AdvisoryEmitted
        ELSE /\ Trace(CurCalls) = Trace(PrevCalls)
             /\ ~AdvisoryEmitted

C13_Witness ==
    /\ SecondPass /\ BodyDone /\ ~PrevAdvised /\ QueryAttached /\ Unspecified
    /\ Len(Opens) = 2 /\ Opens[2].ok /\ Len(Trace(PrevCalls)) = 2

C13_WitnessAdvised ==
    /\ SecondPass /\ BodyDone /\ PrevAdvised /\ Len(Opens) = 1 /\ Len(Trace(PrevCalls)) = 2

(* C14: with no explicit flag and no SQL statement the primary open        *)
(* carries VerboseError exactly when the probe answered false; with the    *)
(* update flag, the read-only flag or a statement it always carries it.    *)
C14_VerboseOnPrimary ==
    PrimaryDone =>
        IF Unspecified /\ ~QueryAttached
        THEN Len(Probes) = 1 /\ (IsVerbose(Opens[1]) <=> ~Probes[1].ok)
        ELSE IsVerbose(Opens[1])

C14_Witness ==
    /\ PrimaryDone /\ Unspecified /\ ~QueryAttached
    /\ Len(Probes) = 1 /\ Probes[1].ok /\ ~IsVerbose(Opens[1]) /\ ~Opens[1].ok

(* C15: every open of a pass (primary open, update retry, read-only        *)
(* retry) is given the path osFilename and the whole list aosOpenOptions,  *)
(* in its order.                                                           *)
C15_SamePathAndOptions ==
    \A i \in 1..Len(Opens) :
        /\ Opens[i].path = osFilename
        /\ Opens[i].oo = aosOpenOptions
        /\ Opens[i].path = Opens[1].path /\ Opens[i].oo = Opens[1].oo

C15_Witness ==
    /\ NegotiationDone /\ Len(Opens) = 2 /\ Len(aosOpenOptions) = 2
    /\ Opens[2].oo = <<"A=1", "B=2">> /\ Opens[1].oo = <<"A=1", "B=2">>
    /\ Opens[2].path = "a.gpkg"

(* C16 as stated: in every pass that ends in open failure at least one of  *)
(* the failed opens carried VerboseError.                                  *)
C16_Original ==
    (NegotiationDone /\ AllOpensFailed) =>
        \E i \in 1..Len(Opens) : ~Opens[i].ok /\ IsVerbose(Opens[i])

(* C17: GDALVectorInfo is called at most once in a pass, only with the     *)
(* dataset the negotiation ended with, after every open and while that     *)
(* dataset is still open; it is not called when every open failed.         *)
C17_RendererOnce ==
    /\ Len(Infos) <= 1
    /\ (InBody /\ ~ReportDone) => Infos = << >>
    /\ (ReportDone /\ AllOpensFailed) => Infos = << >>
    /\ (ReportDone /\ HandleObtained) => Len(Infos) = 1
    /\ Infos # << >> =>
          /\ HandleObtained
          /\ Infos[1].h # NULL /\ Infos[1].h = Opens[Len(Opens)].h
          /\ IsInfo(CurCalls[Len(CurCalls)])
          /\ pc = "delete" => (Infos[1].h \in live /\ CurReleased = << >>)
          /\ CurReleased \in {<< >>, <<Infos[1].h>>}

C17_Witness ==
    /\ pc = "delete" /\ Len(Opens) = 2 /\ Len(Infos) = 1
    /\ Infos[1].h = Opens[2].h /\ Infos[1].h \in live /\ IsInfo(CurCalls[Len(CurCalls)])

(* C18: an open in update mode is made only with the update flag, or with  *)
(* a statement and no read-only flag, or as the retry after a true probe   *)
(* and a failed read-only primary open; after a successful primary open    *)
(* the pass makes no further probe or open call.                           *)
C18_LeastPrivilege ==
    /\ \A i \in 1..Len(Opens) :
          GDAL_OF_UPDATE \in Opens[i].flags =>
              \/ bUpdate
              \/ QueryAttached /\ ~entry.bReadOnly
              \/ /\ i = 2 /\ Len(Probes) = 1 /\ Probes[1].ok
                 /\ IsReadOnlyOpen(Opens[1]) /\ ~Opens[1].ok
    /\ (Len(Opens) >= 1 /\ Opens[1].ok) =>
          /\ Len(Opens) = 1
          /\ LET t == SelectSeq(CurCalls, IsNegotiationCall)
             IN IsOpen(t[Len(t)]) /\ Len(t) = Len(Probes) + 1

C18_Witness ==
    /\ BodyDone /\ Unspecified /\ ~QueryAttached
    /\ Len(Probes) = 1 /\ Probes[1].ok /\ src.update
    /\ Len(Opens) = 1 /\ Opens[1].ok /\ IsReadOnlyOpen(Opens[1])

(* What the negotiation does with the update flag alone. *)
UpdateAloneTrace ==
    <<[op |-> "open", path |-> osFilename,
       flags |-> {GDAL_OF_VECTOR, GDAL_OF_UPDATE, GDAL_OF_VERBOSE_ERROR},
       oo |-> aosOpenOptions, ok |-> src.update]>>

(* C19: with both the read-only and the update flag set the negotiation    *)
(* is the one of the update flag alone: a single Update|VerboseError open  *)
(* without ReadOnly, no probe, no retry and no advisory.                   *)
C19_BothFlagsAsUpdate ==
    (NegotiationDone /\ bUpdate) =>
        /\ Trace(CurCalls) = UpdateAloneTrace
        /\ ~AdvisoryEmitted
        /\ (poDS # NULL) <=> src.update

C19_Witness ==
    /\ BodyDone /\ bUpdate /\ entry.bReadOnly /\ QueryAttached
    /\ Len(Opens) = 1 /\ IsUpdateOpen(Opens[1]) /\ IsVerbose(Opens[1]) /\ ~Opens[1].ok
    /\ src.readonly /\ Probes = << >> /\ ~AdvisoryEmitted

====
